---- MODULE Spec2Model ----
(***************************************************************************)
(* FastPlanner weather proxy (src/anvil-weather-proxy).                    *)
(*                                                                         *)
(* The repository holds the same proxy in several deployments:             *)
(*   "callable" : client_code.py (HTTP routes) calling main.py             *)
(*                (rate limiter, make_proxy_request, proxy_* callables);   *)
(*   "fixed"    : server_code_fixed.py (http_endpoint handlers);           *)
(*   "correct"  : server_code_correct.py (http_endpoint handlers).         *)
(*                                                                         *)
(* Strings that the code concatenates or searches (paths, URLs) are        *)
(* sequences of tokens; joining the tokens gives the Python string.        *)
(* time.time() is an integer clock that never goes back.                   *)
(***************************************************************************)
EXTENDS Naturals, Integers, Sequences, FiniteSets, TLC

\* ---------------------------------------------------------------- bounds
\* RATE_LIMIT_WINDOW and RATE_LIMIT_MAX are 900 and 1000 in main.py:18-19;
\* the model keeps their roles and scales their sizes.
RATE_LIMIT_WINDOW == 2
RATE_LIMIT_MAX == 2
MaxTime == RATE_LIMIT_WINDOW + 1
MaxCalls == RATE_LIMIT_MAX + 2

Threads == {"t1", "t2"}
ClientKeys == {"10.0.0.1", "unknown"}

VARIABLES
  clock,          \* time.time()
  request_cache,  \* main.py:17  dict client_ip -> list of request times
  pc,             \* per thread: position in the handler
  req,            \* per thread: the inbound request being handled
  now,            \* per thread: local `now` of rate_limit_check
  pruned,         \* per thread: the list built by the comprehension, not yet stored
  ok,             \* per thread: outcome of rate_limit_check ("none" before it returns)
  sent,           \* per thread: URL of the outbound call made for the request
  up,             \* per thread: what the outbound call produced
  resp,           \* per thread: the response returned to the caller
  hist,           \* history: per client key, its returned rate_limit_check calls in order
  overlap,        \* history: client keys that had two calls in flight at once
  routed          \* per thread: the last HTTP request put to the route table and what it resolved to

vars == <<clock, request_cache, pc, req, now, pruned, ok, sent, up, resp, hist, overlap, routed>>

\* ------------------------------------------------------------ rate limiter
\* request_cache.get(client_ip, [])
CacheGet(cache, c) == IF c \in DOMAIN cache THEN cache[c] ELSE <<>>

\* request_cache[client_ip] = lst
CachePut_wipe(cache, c, lst) == [k \in {c} |-> lst]
CachePut(cache, c, lst) ==
  [k \in (DOMAIN cache) \cup {c} |-> IF k = c THEN lst ELSE cache[k]]

\* the filter of the comprehension: now - req_time < RATE_LIMIT_WINDOW
Fresh_le(t, rt) == t - rt <= RATE_LIMIT_WINDOW
Fresh(t, rt) == t - rt < RATE_LIMIT_WINDOW

\* [req_time for req_time in lst if now - req_time < RATE_LIMIT_WINDOW]
Prune_keep(lst, t) == lst
Prune(lst, t) == SelectSeq(lst, LAMBDA rt : Fresh(t, rt))

\* len(request_cache.get(client_ip, [])) >= RATE_LIMIT_MAX
OverLimit_gt(cache, c) == Len(CacheGet(cache, c)) > RATE_LIMIT_MAX
OverLimit(cache, c) == Len(CacheGet(cache, c)) >= RATE_LIMIT_MAX

\* the same test when the module's RATE_LIMIT_MAX is set to max
OverLimitAt_gt(cache, c, max) == Len(CacheGet(cache, c)) > max
OverLimitAt(cache, c, max) == Len(CacheGet(cache, c)) >= max

\* if client_ip not in request_cache: request_cache[client_ip] = []
\* request_cache[client_ip].append(now)
CacheAppend_skip(cache, c, t) == cache
CacheAppend(cache, c, t) == CachePut(cache, c, Append(CacheGet(cache, c), t))

\* ------------------------------------------------------- inbound requests
\* A query parameter: key and value (the value a token sequence).
KV(k, v) == [k |-> k, v |-> v]

\* kwargs.get(key, '') / query_params.get(key, '')
RECURSIVE KwGet(_, _)
KwGet(kw, key) ==
  IF kw = <<>> THEN <<>>
  ELSE IF Head(kw).k = key THEN Head(kw).v ELSE KwGet(Tail(kw), key)

\* The query strings the model sends in (ordered, as kwargs.items() yields them).
QService == KV("service", <<"WMS">>)
QCaps == KV("request", <<"GetCapabilities">>)
QMap == KV("request", <<"GetMap">>)
KwargsSet ==
  { <<>>,
    << KV("path", <<>>) >>,
    << KV("path", <<"ows">>) >>,
    << KV("path", <<"/", "ows">>), QService, QCaps >>,
    << QService, QCaps >>,
    << KV("path", <<"ows">>), QMap >> }

\* The remainder matched by <path:path> in client_code.py's routes.
Remainders == { <<"ows">> }

Routes == {"noaa", "awc", "buoy", "lightning"}

Request(variant, route, remainder, kwargs, client) ==
  [variant |-> variant, route |-> route, remainder |-> remainder,
   kwargs |-> kwargs, client |-> client]

\* client_code.py: /_/api/proxy-noaa takes the path from the query string,
\* the other three routes take it from the URL.
CallableRequests ==
  { Request("callable", "noaa", <<>>, kw, c) :
      kw \in { <<>>, << KV("path", <<"ows">>) >>,
               << KV("path", <<"/", "ows">>), QService, QCaps >> },
      c \in ClientKeys }
  \cup
  { Request("callable", r, rem, kw, c) :
      r \in Routes \ {"noaa"}, rem \in Remainders,
      kw \in { <<>>, << QService, QCaps >> }, c \in ClientKeys }

\* server_code_*.py: fixed endpoint paths, everything arrives in kwargs;
\* these handlers never read the client address.
EndpointRequests(variant) ==
  { Request(variant, r, <<>>, kw, "unknown") : r \in Routes, kw \in KwargsSet }

NoRequest == Request("none", "none", <<>>, <<>>, "unknown")

\* The path a request names: the remainder of the URL or the 'path' parameter.
InboundPath(rq) ==
  IF rq.variant = "callable" /\ rq.route # "noaa" THEN rq.remainder
  ELSE KwGet(rq.kwargs, "path")

\* ------------------------------------------------------------------- URLs
NoUrl == <<>>
LightningEndpoint ==
  "https://nowcoast.noaa.gov/geoserver/observations/lightning_detection/ows"

\* main.py: target_url = f"<origin>/{path}"; lightning: f"<...>/ows{path}"
TargetUrl(route, path) ==
  CASE route = "noaa" -> <<"https://nowcoast.noaa.gov/">> \o path
    [] route = "awc" -> <<"https://aviationweather.gov/">> \o path
    [] route = "buoy" -> <<"https://www.ndbc.noaa.gov/">> \o path
    [] route = "lightning" -> <<LightningEndpoint>> \o path

\* server_code_*.py: base_url of a route
BaseUrl(route) ==
  CASE route = "noaa" -> <<"https://nowcoast.noaa.gov">>
    [] route = "awc" -> <<"https://aviationweather.gov">>
    [] route = "buoy" -> <<"https://www.ndbc.noaa.gov">>
    [] route = "lightning" -> <<LightningEndpoint>>

\* if not service_path.startswith('/'): service_path = '/' + service_path
WithSlash(path) ==
  IF path # <<>> /\ Head(path) = "/" THEN path ELSE <<"/">> \o path

\* query_params: f"{key}={value}" for every key of kwargs not in skip
RECURSIVE QueryParams(_, _)
QueryParams(kw, skip) ==
  IF kw = <<>> THEN <<>>
  ELSE IF Head(kw).k \in skip THEN QueryParams(Tail(kw), skip)
  ELSE << <<Head(kw).k, "=">> \o Head(kw).v >> \o QueryParams(Tail(kw), skip)

\* sep.join(parts)
RECURSIVE Join(_, _)
Join(parts, sep) ==
  IF parts = <<>> THEN <<>>
  ELSE IF Len(parts) = 1 THEN parts[1]
  ELSE parts[1] \o <<sep>> \o Join(Tail(parts), sep)

UrlHasToken(url, tok) == \E i \in DOMAIN url : url[i] = tok

\* request_url += ('&' if '?' in request_url else '?') + '&'.join(query_params)
WithQuery(url, qp) ==
  IF qp = <<>> THEN url
  ELSE url \o << IF UrlHasToken(url, "?") THEN "&" ELSE "?" >> \o Join(qp, "&")

\* request_url += '?' + '&'.join(query_params)
WithQueryMark(url, qp) ==
  IF qp = <<>> THEN url ELSE url \o <<"?">> \o Join(qp, "&")

\* The words of the content-type heuristics that a token holds once lower-cased.
KeywordsOf(tok) ==
  CASE tok = "WMS" -> {"wms"}
    [] tok = "GetCapabilities" -> {"capabilities"}
    [] tok = "GetMap" -> {"getmap"}
    [] OTHER -> {}

\* word in request_url.lower()
UrlHas(url, word) == \E i \in DOMAIN url : word \in KeywordsOf(url[i])

\* ---------------------------------------------------------- outbound call
Outcome(kind, status, ctype) == [kind |-> kind, status |-> status, ctype |-> ctype]
NoOutcome == Outcome("none", 0, "")
\* What the upstream can do: answer (any status, with or without a content
\* type), not answer in time, or fail on the network.
Outcomes ==
  { Outcome("response", s, ct) : s \in {200, 404}, ct \in {"", "image/png"} }
  \cup { Outcome("timeout", 0, ""), Outcome("neterror", 0, "") }

\* anvil.http.request raises on a timeout, a network failure and a non-2xx status.
Raises(o) == o.kind # "response" \/ o.status < 200 \/ o.status > 299

\* ------------------------------------------------------------- responses
Body(kind, text, service) == [kind |-> kind, text |-> text, service |-> service]
JsonError(text, service) == Body("json", text, service)
Text(text) == Body("text", text, "")
UpstreamBody == Body("upstream", "", "")
\* str(e) of the exception raised for outcome o
ExcText(o) ==
  CASE o.kind = "timeout" -> "str(timeout exception)"
    [] o.kind = "neterror" -> "str(network exception)"
    [] OTHER -> "str(http error)"

NoHeaders == [h \in {} |-> ""]
Header(name, value) == [h \in {name} |-> value]
Response(status, body, headers) ==
  [status |-> status, body |-> body, headers |-> headers]
NoResponse == Response(0, Text(""), NoHeaders)
HeaderGet(headers, name, default) ==
  IF name \in DOMAIN headers THEN headers[name] ELSE default

\* ------------------------------------------- main.py: the proxy_* callables
ServiceName(route) ==
  CASE route = "noaa" -> "NOAA"
    [] route = "awc" -> "AWC"
    [] route = "buoy" -> "BUOY"
    [] route = "lightning" -> "LIGHTNING"

Result(status, content, headers, success) ==
  [status |-> status, content |-> content, headers |-> headers, success |-> success]

\* the dict returned when rate_limit_check says no
RateLimited(route) ==
  Result(429, JsonError("Rate limit exceeded", ServiceName(route)),
         Header("Content-Type", "application/json"), FALSE)

\* make_proxy_request(target_url): requests.get and its two except clauses
make_proxy_request(o) ==
  CASE o.kind = "response" ->
         Result(o.status, UpstreamBody,
                IF o.ctype = "" THEN NoHeaders ELSE Header("Content-Type", o.ctype),
                TRUE)
    [] o.kind = "timeout" ->
         Result(408, JsonError("Request timeout", "weather"),
                Header("Content-Type", "application/json"), FALSE)
    [] o.kind = "neterror" ->
         Result(500, JsonError(ExcText(o), "weather"),
                Header("Content-Type", "application/json"), FALSE)

\* ------------------------------------------ client_code.py: the HTTP routes
DefaultType(route) ==
  CASE route \in {"noaa", "awc"} -> "application/json"
    [] route = "buoy" -> "text/plain"
    [] route = "lightning" -> "application/xml"

ClientCors(ctype) ==
  [h \in {"Content-Type", "Access-Control-Allow-Origin",
          "Access-Control-Allow-Methods", "Access-Control-Allow-Headers"} |->
     CASE h = "Content-Type" -> ctype
       [] h = "Access-Control-Allow-Origin" -> "*"
       [] h = "Access-Control-Allow-Methods" -> "GET, POST, OPTIONS"
       [] h = "Access-Control-Allow-Headers" -> "Content-Type, Authorization"]

\* return anvil.http.HttpResponse(result['content'], status=result['status'], headers=...)
EndpointResponse(route, result) ==
  Response(result.status, result.content,
           ClientCors(HeaderGet(result.headers, "Content-Type", DefaultType(route))))

\* except Exception as e: the 500 of the route
EndpointError_none(route) == NoResponse
EndpointError(route) ==
  Response(500, JsonError("str(e)", ServiceName(route)),
           Header("Content-Type", "application/json"))

\* ------------------------------- server_code_fixed.py / server_code_correct.py
Handled(url, o, response) == [sent |-> url, up |-> o, resp |-> response]

\* return anvil.server.HttpResponse(400, "Missing 'path' parameter")
MissingPath == Handled(NoUrl, NoOutcome, Response(400, Text("Missing 'path' parameter"), NoHeaders))

\* except Exception as e: return anvil.server.HttpResponse(500, str(e))
Error500(url, o) == Handled(url, o, Response(500, Text(ExcText(o)), NoHeaders))

\* content_type of a 200 answer
ContentType(route, url) ==
  CASE route = "noaa" ->
         IF UrlHas(url, "wms") \/ UrlHas(url, "getmap") THEN "image/png"
         ELSE IF UrlHas(url, "xml") \/ UrlHas(url, "capabilities") THEN "application/xml"
         ELSE "application/json"
    [] route = "awc" -> "application/json"
    [] route = "buoy" -> "text/plain"
    [] route = "lightning" ->
         IF UrlHas(url, "getmap") THEN "image/png" ELSE "application/xml"

FixedCors(ctype) ==
  [h \in {"Content-Type", "Access-Control-Allow-Origin",
          "Access-Control-Allow-Methods", "Access-Control-Allow-Headers"} |->
     CASE h = "Content-Type" -> ctype
       [] h = "Access-Control-Allow-Origin" -> "*"
       [] h = "Access-Control-Allow-Methods" -> "GET, POST, OPTIONS"
       [] h = "Access-Control-Allow-Headers" -> "Content-Type, Authorization, X-Requested-With"]

FixedUrl(rq) ==
  LET path == KwGet(rq.kwargs, "path") IN
  CASE rq.route = "lightning" ->
         WithQueryMark(BaseUrl(rq.route), QueryParams(rq.kwargs, {}))
    [] rq.route = "buoy" -> BaseUrl(rq.route) \o WithSlash(path)
    [] OTHER ->
         WithQuery(BaseUrl(rq.route) \o WithSlash(path), QueryParams(rq.kwargs, {"path"}))

\* server_code_fixed.py: proxy_noaa_weather, proxy_aviation_weather,
\* proxy_buoy_weather, proxy_lightning_weather
server_code_fixed(rq, o) ==
  IF rq.route # "lightning" /\ KwGet(rq.kwargs, "path") = <<>> THEN MissingPath
  ELSE LET url == FixedUrl(rq) IN
       IF Raises(o) THEN Error500(url, o)
       ELSE Handled(url, o, Response(200, UpstreamBody, FixedCors(ContentType(rq.route, url))))

CorrectHeaders(ctype) ==
  [h \in {"Content-Type", "Access-Control-Allow-Origin", "Cache-Control"} |->
     CASE h = "Content-Type" -> ctype
       [] h = "Access-Control-Allow-Origin" -> "http://localhost:8080"
       [] h = "Cache-Control" -> "no-cache"]

CorrectUrl(rq) ==
  LET path == KwGet(rq.kwargs, "path") IN
  IF rq.route = "lightning"
  THEN WithQueryMark(BaseUrl(rq.route), QueryParams(rq.kwargs, {"path"}))
  ELSE WithQuery(BaseUrl(rq.route) \o WithSlash(path), QueryParams(rq.kwargs, {"path"}))

\* server_code_correct.py: the same four endpoints
server_code_correct(rq, o) ==
  IF KwGet(rq.kwargs, "path") = <<>> THEN MissingPath
  ELSE LET url == CorrectUrl(rq) IN
       IF Raises(o) THEN Error500(url, o)
       ELSE Handled(url, o, Response(200, UpstreamBody, CorrectHeaders(ContentType(rq.route, url))))

\* ---------------------------------------- server_code_lightning_pattern.py
PatternHeaders(ctype) ==
  [h \in {"Cache-Control", "Access-Control-Allow-Origin", "Content-Type"} |->
     CASE h = "Cache-Control" -> "no-cache"
       [] h = "Access-Control-Allow-Origin" -> "*"
       [] h = "Content-Type" -> ctype]

\* content_type of a 200 answer
PatternContentType(route, url) ==
  CASE route = "noaa" ->
         IF UrlHas(url, "getmap") THEN "image/png"
         ELSE IF UrlHas(url, "json") THEN "application/json"
         ELSE "application/xml"
    [] route = "awc" -> "application/json"
    [] route = "buoy" -> "text/plain"
    [] route = "lightning" ->
         IF UrlHas(url, "getmap") THEN "image/png" ELSE "application/xml"

PatternUrl(rq) ==
  LET path == KwGet(rq.kwargs, "path") IN
  CASE rq.route = "lightning" ->
         WithQueryMark(BaseUrl(rq.route), QueryParams(rq.kwargs, {}))
    [] rq.route = "buoy" -> BaseUrl(rq.route) \o WithSlash(path)
    [] OTHER ->
         WithQuery(BaseUrl(rq.route) \o WithSlash(path), QueryParams(rq.kwargs, {"path"}))

\* server_code_lightning_pattern.py: the four endpoints; the path test and
\* the URL are computed before the try, the outbound call inside it.
server_code_lightning_pattern(rq, o) ==
  IF rq.route # "lightning" /\ KwGet(rq.kwargs, "path") = <<>> THEN MissingPath
  ELSE LET url == PatternUrl(rq) IN
       IF Raises(o) THEN Error500(url, o)
       ELSE Handled(url, o, Response(200, UpstreamBody,
                                     PatternHeaders(PatternContentType(rq.route, url))))

\* ------------------------------- client_code.py: preflight; main.py: stats
PreflightHeaders ==
  [h \in {"Access-Control-Allow-Origin", "Access-Control-Allow-Methods",
          "Access-Control-Allow-Headers", "Access-Control-Max-Age"} |->
     CASE h = "Access-Control-Allow-Origin" -> "*"
       [] h = "Access-Control-Allow-Methods" -> "GET, POST, OPTIONS"
       [] h = "Access-Control-Allow-Headers" -> "Content-Type, Authorization, X-Requested-With"
       [] h = "Access-Control-Max-Age" -> "86400"]

\* handle_cors_preflight(path=None): HttpResponse('', headers=...), status 200
handle_cors_preflight_bare(path) == Response(200, Text(""), ClientCors("text/plain"))
handle_cors_preflight(path) == Response(200, Text(""), PreflightHeaders)

\* sum(len(requests) for requests in request_cache.values())
RECURSIVE SumLen(_, _)
SumLen(cache, keys) ==
  IF keys = {} THEN 0
  ELSE LET c == CHOOSE k \in keys : TRUE IN Len(cache[c]) + SumLen(cache, keys \ {c})

\* get_weather_stats(): the dict it returns; time is datetime.now()
get_weather_stats_clients(cache, time) ==
  [kind |-> "stats",
   active_clients |-> Cardinality(DOMAIN cache),
   total_requests |-> Cardinality(DOMAIN cache),
   cache_size |-> Cardinality(DOMAIN cache),
   rate_limit_window |-> RATE_LIMIT_WINDOW,
   rate_limit_max |-> RATE_LIMIT_MAX,
   timestamp |-> time]
\* the dict when the module's RATE_LIMIT_MAX is set to max (main.py:204)
get_weather_stats_at(cache, time, max) ==
  [kind |-> "stats",
   active_clients |-> Cardinality(DOMAIN cache),
   total_requests |-> SumLen(cache, DOMAIN cache),
   cache_size |-> Cardinality(DOMAIN cache),
   rate_limit_window |-> RATE_LIMIT_WINDOW,
   rate_limit_max |-> max,
   timestamp |-> time]
get_weather_stats(cache, time) == get_weather_stats_at(cache, time, RATE_LIMIT_MAX)

\* --------------------------------------------- client_code.py: route table
\* @anvil.http.route(rule, methods=[method]) on handler; wildcard: the rule
\* ends in <path:path>. A rule and a request path are sequences of segments.
RouteEntry(prefix, wildcard, method, handler) ==
  [prefix |-> prefix, wildcard |-> wildcard, method |-> method, handler |-> handler]

RouteTable ==
  << RouteEntry(<<"_", "api", "proxy-health">>, FALSE, "GET", "health_endpoint"),
     RouteEntry(<<"_", "api", "proxy-noaa">>, FALSE, "GET", "noaa_proxy_endpoint"),
     RouteEntry(<<"api", "awc">>, TRUE, "GET", "awc_proxy_endpoint"),
     RouteEntry(<<"api", "buoy">>, TRUE, "GET", "buoy_proxy_endpoint"),
     RouteEntry(<<"api", "lightning">>, TRUE, "GET", "lightning_proxy_endpoint"),
     RouteEntry(<<"stats">>, FALSE, "GET", "stats_endpoint"),
     RouteEntry(<<"api", "noaa">>, TRUE, "OPTIONS", "handle_cors_preflight"),
     RouteEntry(<<"api", "awc">>, TRUE, "OPTIONS", "handle_cors_preflight"),
     RouteEntry(<<"api", "buoy">>, TRUE, "OPTIONS", "handle_cors_preflight"),
     RouteEntry(<<"api", "lightning">>, TRUE, "OPTIONS", "handle_cors_preflight"),
     RouteEntry(<<"health">>, FALSE, "OPTIONS", "handle_cors_preflight"),
     RouteEntry(<<"stats">>, FALSE, "OPTIONS", "handle_cors_preflight") >>

\* A rule matches a path segment by segment; <path:path> takes the rest of
\* the path, which must not be empty.
Matches(e, method, path) ==
  /\ e.method = method
  /\ Len(path) >= Len(e.prefix)
  /\ SubSeq(path, 1, Len(e.prefix)) = e.prefix
  /\ IF e.wildcard THEN Len(path) > Len(e.prefix) ELSE Len(path) = Len(e.prefix)

\* the handlers registered for the request
Resolve(method, path) ==
  { RouteTable[i].handler : i \in { j \in DOMAIN RouteTable : Matches(RouteTable[j], method, path) } }

Methods == {"GET", "OPTIONS"}

\* test_proxy.py: the paths the test suite requests
TestPaths ==
  { <<"health">>, <<"api", "noaa", "ows">>, <<"api", "awc", "metar">>,
    <<"api", "buoy", "42001.txt">>, <<"api", "lightning", "ows">>, <<"stats">> }

\* Request paths: those of the test suite, the two GET rules under /_/api,
\* a prefix without a remainder and a path under no rule.
HttpPaths ==
  TestPaths \cup
  { <<"_", "api", "proxy-health">>, <<"_", "api", "proxy-noaa">>,
    <<"api", "awc">>, <<"elsewhere">> }

Routed(method, path, handlers) ==
  [method |-> method, path |-> path, handlers |-> handlers]
NoRouted == Routed("none", <<>>, {})

\* ------------------------------------------------------------ state machine
RlStages == {"rl_prune", "rl_store", "rl_check", "rl_append"}
Idle(t) == pc[t] \in {"idle", "done"}
InFlight == {t \in Threads : pc[t] \in RlStages}
RECURSIVE Calls(_, _)
Calls(h, keys) ==
  IF keys = {} THEN 0
  ELSE LET c == CHOOSE k \in keys : TRUE IN Len(h[c]) + Calls(h, keys \ {c})

Init ==
  /\ clock = 0
  /\ request_cache = [c \in {} |-> <<>>]
  /\ pc = [t \in Threads |-> "idle"]
  /\ req = [t \in Threads |-> NoRequest]
  /\ now = [t \in Threads |-> 0]
  /\ pruned = [t \in Threads |-> <<>>]
  /\ ok = [t \in Threads |-> "none"]
  /\ sent = [t \in Threads |-> NoUrl]
  /\ up = [t \in Threads |-> NoOutcome]
  /\ resp = [t \in Threads |-> NoResponse]
  /\ hist = [c \in ClientKeys |-> <<>>]
  /\ overlap = {}
  /\ routed = [t \in Threads |-> NoRouted]

\* time passes
Tick ==
  /\ clock < MaxTime
  /\ clock' = clock + 1
  /\ UNCHANGED <<request_cache, pc, req, now, pruned, ok, sent, up, resp, hist, overlap, routed>>

\* client_code.py: a route function takes a request, reads path and client_ip
\* and calls the proxy_* callable of main.py, which enters rate_limit_check:
\* main.py:23  now = time.time()
EndpointCall(t, requests) ==
  /\ Idle(t)
  /\ Calls(hist, ClientKeys) + Cardinality(InFlight) < MaxCalls
  /\ \E rq \in requests :
       /\ req' = [req EXCEPT ![t] = rq]
       /\ overlap' = IF \E u \in InFlight : req[u].client = rq.client
                     THEN overlap \cup {rq.client} ELSE overlap
  /\ now' = [now EXCEPT ![t] = clock]
  /\ pc' = [pc EXCEPT ![t] = "rl_prune"]
  /\ ok' = [ok EXCEPT ![t] = "none"]
  /\ sent' = [sent EXCEPT ![t] = NoUrl]
  /\ up' = [up EXCEPT ![t] = NoOutcome]
  /\ resp' = [resp EXCEPT ![t] = NoResponse]
  /\ UNCHANGED <<clock, request_cache, pruned, hist, routed>>

\* client_code.py: anvil.server.call raises and the route's except clause answers
EndpointCallFails(t) ==
  /\ Idle(t)
  /\ \E rq \in CallableRequests :
       /\ req' = [req EXCEPT ![t] = rq]
       /\ resp' = [resp EXCEPT ![t] = EndpointError(rq.route)]
  /\ pc' = [pc EXCEPT ![t] = "done"]
  /\ ok' = [ok EXCEPT ![t] = "none"]
  /\ sent' = [sent EXCEPT ![t] = NoUrl]
  /\ up' = [up EXCEPT ![t] = NoOutcome]
  /\ UNCHANGED <<clock, request_cache, now, pruned, hist, overlap, routed>>

\* main.py:27-28  the comprehension reads the client's list and builds the new one
RlPrune(t) ==
  /\ pc[t] = "rl_prune"
  /\ pruned' = [pruned EXCEPT ![t] = Prune(CacheGet(request_cache, req[t].client), now[t])]
  /\ pc' = [pc EXCEPT ![t] = "rl_store"]
  /\ UNCHANGED <<clock, request_cache, req, now, ok, sent, up, resp, hist, overlap, routed>>

\* main.py:26  request_cache[client_ip] = <the new list>
RlStore(t) ==
  /\ pc[t] = "rl_store"
  /\ request_cache' = CachePut(request_cache, req[t].client, pruned[t])
  /\ pruned' = [pruned EXCEPT ![t] = <<>>]
  /\ pc' = [pc EXCEPT ![t] = "rl_check"]
  /\ UNCHANGED <<clock, req, now, ok, sent, up, resp, hist, overlap, routed>>

Returned(t, accepted) ==
  [hist EXCEPT ![req[t].client] = Append(@, [now |-> now[t], ok |-> accepted])]

\* main.py:32-33  if len(...) >= RATE_LIMIT_MAX: return False
RlCheck(t) ==
  /\ pc[t] = "rl_check"
  /\ IF OverLimit(request_cache, req[t].client)
     THEN /\ ok' = [ok EXCEPT ![t] = "rejected"]
          /\ hist' = Returned(t, FALSE)
          /\ pc' = [pc EXCEPT ![t] = "proxy"]
     ELSE /\ pc' = [pc EXCEPT ![t] = "rl_append"]
          /\ UNCHANGED <<ok, hist>>
  /\ UNCHANGED <<clock, request_cache, req, now, pruned, sent, up, resp, overlap, routed>>

\* main.py:32-33 in a deployment whose RATE_LIMIT_MAX is 0
RlCheckZero(t) ==
  /\ pc[t] = "rl_check"
  /\ IF OverLimitAt(request_cache, req[t].client, 0)
     THEN /\ ok' = [ok EXCEPT ![t] = "rejected"]
          /\ hist' = Returned(t, FALSE)
          /\ pc' = [pc EXCEPT ![t] = "proxy"]
     ELSE /\ pc' = [pc EXCEPT ![t] = "rl_append"]
          /\ UNCHANGED <<ok, hist>>
  /\ UNCHANGED <<clock, request_cache, req, now, pruned, sent, up, resp, overlap, routed>>

\* a call that starts when no other call is running
EndpointCallSerial(t, requests) ==
  /\ \A u \in Threads : Idle(u)
  /\ EndpointCall(t, requests)

\* main.py:36-40  request_cache[client_ip].append(now); return True
RlAppend(t) ==
  /\ pc[t] = "rl_append"
  /\ request_cache' = CacheAppend(request_cache, req[t].client, now[t])
  /\ ok' = [ok EXCEPT ![t] = "accepted"]
  /\ hist' = Returned(t, TRUE)
  /\ pc' = [pc EXCEPT ![t] = "proxy"]
  /\ UNCHANGED <<clock, req, now, pruned, sent, up, resp, overlap, routed>>

\* main.py: the rest of proxy_*: the 429 dict, or target_url and
\* make_proxy_request; client_code.py then wraps the result.
ProxyCallable(t, outcomes) ==
  /\ pc[t] = "proxy"
  /\ IF ok[t] = "rejected"
     THEN /\ resp' = [resp EXCEPT ![t] = EndpointResponse(req[t].route, RateLimited(req[t].route))]
          /\ UNCHANGED <<sent, up>>
     ELSE \E o \in outcomes :
          /\ sent' = [sent EXCEPT ![t] = TargetUrl(req[t].route, InboundPath(req[t]))]
          /\ up' = [up EXCEPT ![t] = o]
          /\ resp' = [resp EXCEPT ![t] = EndpointResponse(req[t].route, make_proxy_request(o))]
  /\ now' = [now EXCEPT ![t] = 0]
  /\ pc' = [pc EXCEPT ![t] = "done"]
  /\ UNCHANGED <<clock, request_cache, req, pruned, ok, hist, overlap, routed>>

\* An http_endpoint handler takes kwargs and returns its HttpResponse.
Endpoint(t, rq, h) ==
  /\ req' = [req EXCEPT ![t] = rq]
  /\ sent' = [sent EXCEPT ![t] = h.sent]
  /\ up' = [up EXCEPT ![t] = h.up]
  /\ resp' = [resp EXCEPT ![t] = h.resp]
  /\ ok' = [ok EXCEPT ![t] = "none"]
  /\ pc' = [pc EXCEPT ![t] = "done"]
  /\ UNCHANGED <<clock, request_cache, now, pruned, hist, overlap, routed>>

ServerCodeFixed(t) ==
  /\ Idle(t)
  /\ \E rq \in EndpointRequests("fixed"), o \in Outcomes :
       Endpoint(t, rq, server_code_fixed(rq, o))

ServerCodeCorrect(t) ==
  /\ Idle(t)
  /\ \E rq \in EndpointRequests("correct"), o \in Outcomes :
       Endpoint(t, rq, server_code_correct(rq, o))

ServerCodePattern(t) ==
  /\ Idle(t)
  /\ DOMAIN request_cache = {}
  /\ \E rq \in EndpointRequests("pattern"), o \in Outcomes :
       Endpoint(t, rq, server_code_lightning_pattern(rq, o))

\* client_code.py: an OPTIONS request on a rule of handle_cors_preflight
Preflight(t) ==
  /\ Idle(t)
  /\ \E p \in HttpPaths :
       /\ Resolve("OPTIONS", p) = {"handle_cors_preflight"}
       /\ req' = [req EXCEPT ![t] = Request("callable", "preflight", p, <<>>, "unknown")]
       /\ resp' = [resp EXCEPT ![t] = handle_cors_preflight(p)]
  /\ pc' = [pc EXCEPT ![t] = "done"]
  /\ ok' = [ok EXCEPT ![t] = "none"]
  /\ sent' = [sent EXCEPT ![t] = NoUrl]
  /\ up' = [up EXCEPT ![t] = NoOutcome]
  /\ UNCHANGED <<clock, request_cache, now, pruned, hist, overlap, routed>>

\* client_code.py: GET /stats -> stats_endpoint -> main.py get_weather_stats
StatsCall(t) ==
  /\ Idle(t)
  /\ req' = [req EXCEPT ![t] = Request("callable", "stats", <<>>, <<>>, "unknown")]
  /\ resp' = [resp EXCEPT ![t] =
                Response(200, get_weather_stats(request_cache, clock),
                         ClientCors("application/json"))]
  /\ pc' = [pc EXCEPT ![t] = "done"]
  /\ ok' = [ok EXCEPT ![t] = "none"]
  /\ sent' = [sent EXCEPT ![t] = NoUrl]
  /\ up' = [up EXCEPT ![t] = NoOutcome]
  /\ UNCHANGED <<clock, request_cache, now, pruned, hist, overlap, routed>>

\* the same route in a deployment whose RATE_LIMIT_MAX is 0
StatsCallZero(t) ==
  /\ Idle(t)
  /\ req' = [req EXCEPT ![t] = Request("callable", "stats", <<>>, <<>>, "unknown")]
  /\ resp' = [resp EXCEPT ![t] =
                Response(200, get_weather_stats_at(request_cache, clock, 0),
                         ClientCors("application/json"))]
  /\ pc' = [pc EXCEPT ![t] = "done"]
  /\ ok' = [ok EXCEPT ![t] = "none"]
  /\ sent' = [sent EXCEPT ![t] = NoUrl]
  /\ up' = [up EXCEPT ![t] = NoOutcome]
  /\ UNCHANGED <<clock, request_cache, now, pruned, hist, overlap, routed>>

\* client_code.py: an HTTP request is put to the route table
Route(t) ==
  /\ \E m \in Methods, p \in HttpPaths :
       routed' = [routed EXCEPT ![t] = Routed(m, p, Resolve(m, p))]
  /\ UNCHANGED <<clock, request_cache, pc, req, now, pruned, ok, sent, up, resp, hist, overlap>>

\* ------------------------------------------------------------ deployments
\* The three deployments are separate programs; each has its specification.
Worker == CHOOSE t \in Threads : TRUE

\* client_code.py + main.py, requests handled one after the other.
Next ==
  \/ Tick
  \/ EndpointCall(Worker, CallableRequests)
  \/ RlPrune(Worker)
  \/ RlStore(Worker)
  \/ RlCheck(Worker)
  \/ RlAppend(Worker)
  \/ ProxyCallable(Worker, Outcomes)

Spec == Init /\ [][Next]_vars

\* The same deployment when anvil.server.call can fail.
NextFaulty == Next \/ EndpointCallFails(Worker)
SpecFaulty == Init /\ [][NextFaulty]_vars

\* client_code.py + main.py with the calls racing: main.py takes no lock, so
\* the steps of rate_limit_check of different threads interleave.
ConcRequests ==
  { Request("callable", "noaa", <<>>, << KV("path", <<"ows">>) >>, c) : c \in ClientKeys }

\* The race is in the rate limiter; here the upstream always answers.
ConcOutcomes == { Outcome("response", 200, "") }

NextConc ==
  \/ Tick
  \/ \E t \in Threads :
       \/ EndpointCall(t, ConcRequests)
       \/ RlPrune(t)
       \/ RlStore(t)
       \/ RlCheck(t)
       \/ RlAppend(t)
       \/ ProxyCallable(t, ConcOutcomes)

SpecConc == Init /\ [][NextConc]_vars

\* server_code_fixed.py and server_code_correct.py: stateless handlers.
NextEndpoints ==
  \/ ServerCodeFixed(Worker)
  \/ ServerCodeCorrect(Worker)

SpecEndpoints == Init /\ [][NextEndpoints]_vars

\* client_code.py + main.py with the preflight and the stats routes.
NextService ==
  \/ Next
  \/ Preflight(Worker)
  \/ StatsCall(Worker)

SpecService == Init /\ [][NextService]_vars

\* Every handler that can fail: client_code.py + main.py with a failing
\* anvil.server.call, and the endpoints of server_code_lightning_pattern.py
\* (a deployment of its own, without a rate-limit table).
NextHandlers ==
  \/ NextFaulty
  \/ ServerCodePattern(Worker)

SpecHandlers == Init /\ [][NextHandlers]_vars

\* client_code.py: the route table alone.
NextRoutes == \E t \in Threads : Route(t)

SpecRoutes == Init /\ [][NextRoutes]_vars

\* client_code.py + main.py with RATE_LIMIT_MAX set to 0: rate_limit_check
\* never reaches its append.
NextZero ==
  \/ Tick
  \/ EndpointCall(Worker, CallableRequests)
  \/ RlPrune(Worker)
  \/ RlStore(Worker)
  \/ RlCheckZero(Worker)
  \/ ProxyCallable(Worker, Outcomes)
  \/ StatsCallZero(Worker)

SpecZero == Init /\ [][NextZero]_vars

\* client_code.py + main.py, one call to each of the four services per
\* request, served by two workers that never run at the same time.
QuotaRequests ==
  { Request("callable", "noaa", <<>>, << KV("path", <<"ows">>) >>, c) : c \in ClientKeys }
  \cup
  { Request("callable", r, <<"ows">>, <<>>, c) : r \in Routes \ {"noaa"}, c \in ClientKeys }

NextQuota ==
  \/ Tick
  \/ \E t \in Threads :
       \/ EndpointCallSerial(t, QuotaRequests)
       \/ RlPrune(t)
       \/ RlStore(t)
       \/ RlCheck(t)
       \/ RlAppend(t)
       \/ ProxyCallable(t, ConcOutcomes)

SpecQuota == Init /\ [][NextQuota]_vars

\* ================================================================== claims
Done(t) == pc[t] = "done"
\* the calls of client c all lie in one window up to its i-th call
OneWindow(c, i) == hist[c][i].now - hist[c][1].now < RATE_LIMIT_WINDOW

\* C1: calls of one client that all lie inside one window: the first
\* RATE_LIMIT_MAX are accepted and the next one is rejected, and the callable
\* answers a rejected call with 429 and "Rate limit exceeded".
C1_FirstMaxAcceptedNextRejected ==
  /\ \A c \in ClientKeys : \A i \in DOMAIN hist[c] :
       OneWindow(c, i) =>
         /\ i <= RATE_LIMIT_MAX => hist[c][i].ok
         /\ i = RATE_LIMIT_MAX + 1 => ~hist[c][i].ok
  /\ \A t \in Threads :
       Done(t) /\ ok[t] = "rejected" =>
         /\ resp[t].status = 429
         /\ resp[t].body.text = "Rate limit exceeded"

C1_Witness ==
  \E t \in Threads :
    LET c == req[t].client IN
    /\ Done(t) /\ ok[t] = "rejected" /\ resp[t].status = 429
    /\ Len(hist[c]) = RATE_LIMIT_MAX + 1
    /\ OneWindow(c, RATE_LIMIT_MAX + 1)
    /\ \A i \in 1..RATE_LIMIT_MAX : hist[c][i].ok
    /\ ~hist[c][RATE_LIMIT_MAX + 1].ok

\* C2: two calls for the same client key racing for the last slot of the
\* window are never both accepted (which leaves more than RATE_LIMIT_MAX
\* timestamps in the window).
C2_LastSlotGrantedOnce ==
  \A t, u \in Threads :
    ~ /\ t # u
      /\ req[t].client = req[u].client
      /\ pc[t] = "proxy" /\ ok[t] = "accepted"
      /\ pc[u] = "proxy" /\ ok[u] = "accepted"
      /\ Len(CacheGet(request_cache, req[t].client)) > RATE_LIMIT_MAX

\* C3: a client that was rejected and then makes no call for
\* RATE_LIMIT_WINDOW seconds is accepted by its next call.
C3_AcceptedAfterWindow ==
  \A c \in ClientKeys : \A i \in DOMAIN hist[c] :
    ( /\ i > 1
      /\ ~hist[c][i - 1].ok
      /\ hist[c][i].now - hist[c][i - 1].now >= RATE_LIMIT_WINDOW )
    => hist[c][i].ok

C3_Witness ==
  \E c \in ClientKeys : \E i \in DOMAIN hist[c] :
    /\ i > 1
    /\ ~hist[c][i - 1].ok
    /\ hist[c][i].now - hist[c][i - 1].now >= RATE_LIMIT_WINDOW
    /\ hist[c][i].ok

\* what a sliding window over the accepted calls of client c says of its i-th call
SlidingWindowAccepts(c, i) ==
  Cardinality({ j \in 1..(i - 1) :
                 /\ hist[c][j].ok
                 /\ hist[c][i].now - hist[c][j].now < RATE_LIMIT_WINDOW }) < RATE_LIMIT_MAX

WindowChanged(c) ==
  \/ (c \in DOMAIN request_cache') # (c \in DOMAIN request_cache)
  \/ CacheGet(request_cache', c) # CacheGet(request_cache, c)

\* C4: in every interleaving, the window of a client key is changed only by
\* a call for that key, and a client whose own calls do not overlap gets the
\* results its own calls alone determine, whatever the other clients do.
C4_ClientsDoNotInterfere ==
  /\ [][ \A c \in ClientKeys :
           WindowChanged(c) =>
             \E t \in Threads : req[t].client = c /\ pc[t] # pc'[t] ]_vars
  /\ [] ( \A c \in ClientKeys \ overlap : \A i \in DOMAIN hist[c] :
            hist[c][i].ok <=> SlidingWindowAccepts(c, i) )

C4_Witness ==
  \E t, u \in Threads :
    /\ req[t].client # req[u].client
    /\ pc[t] = "proxy" /\ ok[t] = "rejected"
    /\ pc[u] = "proxy" /\ ok[u] = "accepted"
    /\ now[u] >= now[t]
    /\ req[u].client \notin overlap

HasHeader(response, name) == name \in DOMAIN response.headers

\* C5: every response to a request on a weather route carries
\* Access-Control-Allow-Origin, on the success path and on every error path.
C5_EveryResponseCarriesCors ==
  \A t \in Threads :
    Done(t) => HasHeader(resp[t], "Access-Control-Allow-Origin")

\* C6: on the marine/radar, aviation and buoy routes a request without a
\* path (missing or empty) is answered 400 and makes no outbound call.
C6_MissingPathIs400 ==
  \A t \in Threads :
    ( /\ Done(t)
      /\ req[t].route \in {"noaa", "awc", "buoy"}
      /\ InboundPath(req[t]) = <<>> )
    => resp[t].status = 400 /\ sent[t] = NoUrl

\* C7: an outbound call is made only for a request the rate limiter has
\* accepted, and a request answered 429 makes none.
C7_RateCheckBeforeOutbound ==
  \A t \in Threads :
    /\ sent[t] # NoUrl => ok[t] = "accepted"
    /\ Done(t) /\ resp[t].status = 429 => sent[t] = NoUrl

\* the URL holds key=value of the parameter
Forwarded(url, kv) ==
  \E i \in DOMAIN url :
    /\ i + 1 + Len(kv.v) <= Len(url)
    /\ SubSeq(url, i, i + 1 + Len(kv.v)) = <<kv.k, "=">> \o kv.v

\* C8: on the lightning route the outbound URL is the fixed lightning
\* endpoint, never followed by the inbound path remainder, and it carries
\* the inbound query parameters.
C8_LightningFixedEndpoint ==
  \A t \in Threads :
    Done(t) /\ req[t].route = "lightning" /\ sent[t] # NoUrl =>
      /\ Head(sent[t]) = LightningEndpoint
      /\ Len(sent[t]) > 1 => sent[t][2] = "?"
      /\ \A i \in DOMAIN req[t].kwargs :
           req[t].kwargs[i].k # "path" => Forwarded(sent[t], req[t].kwargs[i])

\* C9: a lightning request with service=WMS&request=GetCapabilities and no
\* path is not rejected for the missing path: it is forwarded, and when the
\* upstream answers it (200) the response is application/xml.
C9_LightningNeedsNoPath ==
  \A t \in Threads :
    ( /\ Done(t)
      /\ req[t].route = "lightning"
      /\ req[t].kwargs = << QService, QCaps >>
      /\ InboundPath(req[t]) = <<>> )
    => /\ resp[t].status # 400
       /\ sent[t] # NoUrl
       /\ up[t].kind = "response" /\ up[t].status = 200 =>
            HeaderGet(resp[t].headers, "Content-Type", "") = "application/xml"

\* the body holds the word "timeout"
BodyHasTimeout(body) == body.text = "Request timeout"

\* C10: an outbound call that times out is answered 408 or 504 with a body
\* holding "timeout", never with another status.
C10_TimeoutIs408Or504 ==
  \A t \in Threads :
    Done(t) /\ up[t].kind = "timeout" =>
      /\ resp[t].status \in {408, 504}
      /\ BodyHasTimeout(resp[t].body)

\* C11: when the upstream answers, whatever its status (4xx and 5xx
\* included), the response carries that status and the upstream body.
C11_UpstreamStatusPassedThrough ==
  \A t \in Threads :
    Done(t) /\ up[t].kind = "response" =>
      /\ resp[t].status = up[t].status
      /\ resp[t].body = UpstreamBody

IsPreflight(rq) == rq.route = "preflight"

\* C12: an OPTIONS preflight on a rule of handle_cors_preflight is answered
\* with an empty body, status 200 or 204, the CORS headers and
\* Access-Control-Max-Age 86400, it makes no rate-limit check and no outbound
\* call, and the step leaves the rate-limit table as it was.
C12_PreflightAnsweredAtOnce ==
  /\ [] ( \A t \in Threads :
            Done(t) /\ IsPreflight(req[t]) =>
              /\ resp[t].status \in {200, 204}
              /\ resp[t].body = Text("")
              /\ HasHeader(resp[t], "Access-Control-Allow-Origin")
              /\ HasHeader(resp[t], "Access-Control-Allow-Methods")
              /\ HasHeader(resp[t], "Access-Control-Allow-Headers")
              /\ HeaderGet(resp[t].headers, "Access-Control-Max-Age", "") = "86400"
              /\ ok[t] = "none"
              /\ sent[t] = NoUrl )
  /\ [][ \A t \in Threads :
           IsPreflight(req'[t]) /\ req'[t] # req[t] =>
             /\ pc'[t] = "done"
             /\ request_cache' = request_cache
             /\ hist' = hist ]_vars

C12_Witness ==
  \E t \in Threads :
    /\ Done(t) /\ IsPreflight(req[t])
    /\ resp[t].status = 200
    /\ \E c \in DOMAIN request_cache : Len(request_cache[c]) = RATE_LIMIT_MAX

\* no rule of the route table is a prefix of the path
UnderNoPrefix(path) ==
  \A i \in DOMAIN RouteTable :
    LET pre == RouteTable[i].prefix IN
    ~ (Len(path) >= Len(pre) /\ SubSeq(path, 1, Len(pre)) = pre)

\* C13: each path the test suite requests with GET resolves to exactly one
\* GET handler, and a path under no configured prefix resolves to none.
C13_RoutesResolve ==
  \A t \in Threads :
    routed[t].method = "GET" =>
      /\ routed[t].path \in TestPaths =>
           /\ Cardinality(routed[t].handlers) = 1
           /\ "handle_cors_preflight" \notin routed[t].handlers
      /\ UnderNoPrefix(routed[t].path) => routed[t].handlers = {}

\* C14: on the marine/radar, aviation and buoy routes the outbound URL
\* carries every inbound query parameter other than path as key=value.
C14_QueryForwarded ==
  \A t \in Threads :
    Done(t) /\ req[t].route \in {"noaa", "awc", "buoy"} /\ sent[t] # NoUrl =>
      \A i \in DOMAIN req[t].kwargs :
        req[t].kwargs[i].k # "path" => Forwarded(sent[t], req[t].kwargs[i])

\* C15: on every route a successful response for an outbound URL that holds
\* "getmap" (in any letter case) is labelled image/png.
C15_GetMapIsPng ==
  \A t \in Threads :
    ( /\ Done(t)
      /\ up[t].kind = "response" /\ resp[t].status = 200
      /\ UrlHas(sent[t], "getmap") )
    => HeaderGet(resp[t].headers, "Content-Type", "") = "image/png"

\* a response a caller can read: an HTTP status and a body
WellFormed(response) ==
  /\ response.status \in 200..599
  /\ response.body.kind \in {"json", "text", "upstream"}

\* the call of the callable raised before it returned anything
CallRaised(t) ==
  req[t].variant = "callable" /\ req[t].route \in Routes /\ ok[t] = "none"

\* C16: every failure while a weather route handles a request (missing
\* path, rate limit, timeout, network error, unexpected exception) ends in a
\* well-formed response; no handler ends without one.
C16_FailuresAnswered ==
  \A t \in Threads :
    Done(t) =>
      /\ WellFormed(resp[t])
      /\ ok[t] = "rejected" => resp[t].status = 429
      /\ up[t].kind = "timeout" => resp[t].status \in {408, 500}
      /\ up[t].kind = "neterror" => resp[t].status = 500
      /\ CallRaised(t) => resp[t].status = 500
      /\ ( /\ req[t].variant = "pattern" /\ req[t].route # "lightning"
           /\ InboundPath(req[t]) = <<>> ) => resp[t].status = 400

C16_Witness ==
  \E t \in Threads :
    /\ Done(t) /\ CallRaised(t)
    /\ resp[t].status = 500
    /\ \E c \in DOMAIN request_cache : request_cache[c] # <<>>

IsStats(rq) == rq.route = "stats"

\* the timestamps of all windows, each with its client and position
Recorded(cache) ==
  UNION { { <<c, i>> : i \in DOMAIN cache[c] } : c \in DOMAIN cache }

\* C17: get_weather_stats returns the number of client keys of the
\* rate-limit table and the sum of the lengths of all windows, and the step
\* leaves the table as it was.
C17_StatsCountTable ==
  /\ [] ( \A t \in Threads :
            Done(t) /\ IsStats(req[t]) =>
              /\ resp[t].body.active_clients = Cardinality(DOMAIN request_cache)
              /\ resp[t].body.total_requests = Cardinality(Recorded(request_cache)) )
  /\ [][ \A t \in Threads :
           IsStats(req'[t]) /\ <<req'[t], resp'[t]>> # <<req[t], resp[t]>> =>
             request_cache' = request_cache ]_vars

C17_Witness ==
  \E t \in Threads :
    /\ Done(t) /\ IsStats(req[t])
    /\ resp[t].body.active_clients = 2
    /\ resp[t].body.total_requests = RATE_LIMIT_MAX + 1

\* the times of the accepted calls of client c, in order
AcceptedTimes(c) ==
  LET acc == SelectSeq(hist[c], LAMBDA h : h.ok) IN
  [i \in 1..Len(acc) |-> acc[i].now]

\* the timestamps of lst less than RATE_LIMIT_WINDOW old at time t
Unexpired(lst, t) == SelectSeq(lst, LAMBDA rt : t - rt < RATE_LIMIT_WINDOW)

\* C18: a call that finds RATE_LIMIT_MAX or more timestamps in the pruned
\* window returns False without appending: the window then holds exactly the
\* unexpired timestamps recorded before the call.
C18_RejectedCallRecordsNothing ==
  \A t \in Threads :
    LET window == CacheGet(request_cache, req[t].client) IN
    /\ pc[t] = "rl_append" => Len(window) < RATE_LIMIT_MAX
    /\ pc[t] = "proxy" /\ ok[t] = "rejected" =>
         /\ Len(window) >= RATE_LIMIT_MAX
         /\ window = Unexpired(AcceptedTimes(req[t].client), now[t])

C18_Witness ==
  \E t \in Threads :
    /\ pc[t] = "proxy" /\ ok[t] = "rejected"
    /\ CacheGet(request_cache, req[t].client) # AcceptedTimes(req[t].client)
    /\ Len(CacheGet(request_cache, req[t].client)) = RATE_LIMIT_MAX

\* C19: after the prune at time now, every recorded timestamp t with
\* t >= now - RATE_LIMIT_WINDOW is still in the window, one that is exactly
\* RATE_LIMIT_WINDOW old included.
C19_BoundaryTimestampKept ==
  \A t \in Threads :
    pc[t] = "rl_check" =>
      LET window == CacheGet(request_cache, req[t].client)
          times == AcceptedTimes(req[t].client) IN
      \A i \in DOMAIN times :
        times[i] >= now[t] - RATE_LIMIT_WINDOW =>
          \E k \in DOMAIN window : window[k] = times[i]

\* C20: a timestamp older than the window is never counted, neither when
\* rate_limit_check decides nor in the total get_weather_stats reports.
C20_StaleNeverCounted ==
  \A t \in Threads :
    /\ pc[t] = "rl_check" =>
         \A k \in DOMAIN CacheGet(request_cache, req[t].client) :
           now[t] - CacheGet(request_cache, req[t].client)[k] <= RATE_LIMIT_WINDOW
    /\ Done(t) /\ IsStats(req[t]) =>
         resp[t].body.total_requests =
           Cardinality({ ci \in Recorded(request_cache) :
                          resp[t].body.timestamp - request_cache[ci[1]][ci[2]]
                            <= RATE_LIMIT_WINDOW })

\* C21: with RATE_LIMIT_MAX = 0 every call of rate_limit_check is rejected,
\* the first call of a client without history included.
C21_ZeroLimitRejectsAll ==
  /\ \A t \in Threads : pc[t] # "rl_append" /\ ok[t] # "accepted"
  /\ \A c \in ClientKeys : \A i \in DOMAIN hist[c] : ~hist[c][i].ok
  /\ \A t \in Threads : Done(t) /\ req[t].route \in Routes => resp[t].status = 429

C21_Witness ==
  \E t \in Threads :
    /\ Done(t) /\ req[t].route \in Routes
    /\ Len(hist[req[t].client]) = 1
    /\ resp[t].status = 429

\* the content type the heuristics give, in their order, for an outbound URL
HeuristicType(route, url) ==
  IF UrlHas(url, "getmap") \/ UrlHas(url, "wms") THEN "image/png"
  ELSE IF UrlHas(url, "xml") \/ UrlHas(url, "capabilities") THEN "application/xml"
  ELSE IF UrlHas(url, "json") THEN "application/json"
  ELSE CASE route \in {"noaa", "awc"} -> "application/json"
         [] route = "buoy" -> "text/plain"
         [] route = "lightning" -> "application/xml"

\* C22: when the upstream gives no content type, every route labels a
\* successful response by the lower-cased outbound URL: getmap or wms gives
\* image/png, else xml or capabilities gives application/xml, else json gives
\* application/json, else the default of the route.
C22_HeuristicOrder ==
  \A t \in Threads :
    ( /\ Done(t) /\ req[t].route \in Routes
      /\ up[t].kind = "response" /\ up[t].ctype = "" /\ resp[t].status = 200 )
    => HeaderGet(resp[t].headers, "Content-Type", "") = HeuristicType(req[t].route, sent[t])

\* C23: when the upstream answer carries a content type, a successful
\* response reports that content type, on every route.
C23_UpstreamTypePreferred ==
  \A t \in Threads :
    ( /\ Done(t) /\ req[t].route \in Routes
      /\ up[t].kind = "response" /\ up[t].ctype # "" /\ resp[t].status = 200 )
    => HeaderGet(resp[t].headers, "Content-Type", "") = up[t].ctype

\* C24: the outbound URL never carries the inbound parameter path
\* (path=...), on any route, lightning included.
C24_PathNeverForwarded ==
  \A t \in Threads :
    \A i \in DOMAIN sent[t] :
      ~ (i < Len(sent[t]) /\ sent[t][i] = "path" /\ sent[t][i + 1] = "=")

\* C25: every path that resolves to a GET handler also resolves to an
\* OPTIONS preflight handler.
C25_GetPathsHavePreflight ==
  \A t \in Threads :
    routed[t].method = "GET" /\ routed[t].handlers # {} =>
      Resolve("OPTIONS", routed[t].path) # {}

\* the timestamps of client c that counted against its k-th call
CountedAt(c, k) ==
  { hist[c][j].now : j \in { m \in 1..(k - 1) :
      hist[c][m].ok /\ hist[c][k].now - hist[c][m].now < RATE_LIMIT_WINDOW } }

\* the oldest of them
OldestAt(c, k) == CHOOSE m \in CountedAt(c, k) : \A x \in CountedAt(c, k) : m <= x

\* C26: a limited client is accepted by the first call it makes after its
\* oldest recorded timestamp has left the window, whatever rejected calls
\* came before.
C26_RejectionsDoNotProlong ==
  \A c \in ClientKeys : \A i \in DOMAIN hist[c] :
    ( /\ i > 1
      /\ ~hist[c][i - 1].ok
      /\ CountedAt(c, i - 1) # {}
      /\ hist[c][i].now - OldestAt(c, i - 1) >= RATE_LIMIT_WINDOW )
    => hist[c][i].ok

C26_Witness ==
  \E c \in ClientKeys : \E i \in DOMAIN hist[c] :
    /\ i > 1
    /\ ~hist[c][i - 1].ok
    /\ CountedAt(c, i - 1) # {}
    /\ hist[c][i].now - OldestAt(c, i - 1) >= RATE_LIMIT_WINDOW
    /\ hist[c][i].now - hist[c][i - 1].now < RATE_LIMIT_WINDOW
    /\ hist[c][i].ok

\* C27: in every interleaving, the timestamp of each accepted call is in
\* the window of its client as long as it has not expired.
C27_AcceptedRecordKept ==
  \A c \in ClientKeys : \A i \in DOMAIN hist[c] :
    hist[c][i].ok /\ clock - hist[c][i].now < RATE_LIMIT_WINDOW =>
      LET window == CacheGet(request_cache, c)
          ts == hist[c][i].now IN
      Cardinality({ k \in DOMAIN window : window[k] = ts })
        >= Cardinality({ j \in DOMAIN hist[c] : hist[c][j].ok /\ hist[c][j].now = ts })

\* C28: the four services share one quota per client key: each accepted
\* call, whatever its service, is recorded in the window of its client, a
\* call is accepted exactly when fewer than RATE_LIMIT_MAX accepted calls of
\* the client (to any service) lie in the window, and a rejected call is
\* answered 429 by every service.
C28_OneQuotaForAllServices ==
  /\ \A c \in ClientKeys : \A i \in DOMAIN hist[c] :
       hist[c][i].ok <=> SlidingWindowAccepts(c, i)
  /\ \A t \in Threads :
       /\ pc[t] = "proxy" /\ ok[t] = "accepted" =>
            \E k \in DOMAIN CacheGet(request_cache, req[t].client) :
              CacheGet(request_cache, req[t].client)[k] = now[t]
       /\ Done(t) /\ ok[t] = "rejected" => resp[t].status = 429

C28_Witness ==
  \E t, u \in Threads :
    LET c == req[t].client IN
    /\ t # u /\ req[u].client = c
    /\ req[t].route # req[u].route
    /\ Done(u) /\ ok[u] = "accepted"
    /\ Done(t) /\ ok[t] = "rejected" /\ resp[t].status = 429
    /\ Len(hist[c]) = RATE_LIMIT_MAX + 1
    /\ OneWindow(c, RATE_LIMIT_MAX + 1)

\* C29: with calls that never overlap, no window of request_cache holds
\* more than RATE_LIMIT_MAX timestamps.
C29_WindowAtMostMax ==
  \A c \in DOMAIN request_cache : Len(request_cache[c]) <= RATE_LIMIT_MAX

C29_Witness ==
  /\ Cardinality(DOMAIN request_cache) = 2
  /\ \E c \in DOMAIN request_cache :
       /\ Len(request_cache[c]) = RATE_LIMIT_MAX
       /\ \E i \in DOMAIN hist[c] : ~hist[c][i].ok

\* C30: no step removes a client key from request_cache, a call leaves its
\* key in the table from its store on (accepted or rejected, window empty
\* or not), and active_clients of get_weather_stats is the number of keys.
C30_KeysOnlyGrow ==
  /\ [][ (DOMAIN request_cache) \subseteq (DOMAIN request_cache') ]_vars
  /\ [] ( \A t \in Threads :
            /\ ( \/ pc[t] \in {"rl_check", "rl_append", "proxy"}
                 \/ Done(t) /\ ok[t] # "none" )
               => req[t].client \in DOMAIN request_cache
            /\ Done(t) /\ IsStats(req[t]) =>
                 resp[t].body.active_clients = Cardinality(DOMAIN request_cache) )

C30_Witness ==
  \E t \in Threads :
    /\ pc[t] = "rl_check"
    /\ Cardinality(DOMAIN request_cache) = 2
    /\ request_cache[req[t].client] = <<>>
    /\ \E i \in DOMAIN hist[req[t].client] : hist[req[t].client][i].ok

====
